---- MODULE Spec2Model ----
(***************************************************************************)
(* The nil-tolerant binary search tree of                                  *)
(* learning_go/examples/binaryTree/main.go: the type IntTree, its methods  *)
(* Insert and Contains, and the statements of a caller that holds the root *)
(* in a variable `it`.                                                     *)
(*                                                                         *)
(* Nodes live in a heap: heap[p] is the node at address p, a record of its *)
(* fields left, right and val.  Addresses are 1..Len(heap); Nil is the nil *)
(* pointer.  An allocation appends a node and yields its address.          *)
(*                                                                         *)
(* After the tree come the other programs of the repository, each with a   *)
(* variable and a specification of its own: the operator functions of the  *)
(* calculator (exercises/05/ex1) and the loop of its main, OrderableInt.    *)
(* Order and the generic Stack (08_generics.md), the integer overflow      *)
(* program and fileLen (exercises/05/ex2).                                 *)
(***************************************************************************)
EXTENDS Integers, Sequences, FiniteSets

\* ----------------------------------------------------------------- bounds

\* Values a caller inserts or looks up are 0..MaxVal.
MaxVal == 4
\* A caller makes at most MaxOps Insert calls.
MaxOps == 4

Vals == 0..MaxVal

\* A caller feeding sorted input makes at most ChainLen Insert calls, of
\* values among 0..ChainLen + 1.
ChainLen == 5

ChainVals == 0..(ChainLen + 1)

\* The values of the insert/lookup scenario of main: 5, 3, 10, 2 are
\* inserted; 12 and 4 are looked up and absent.
ScenarioVals == {2, 3, 4, 5, 10, 12}

\* ------------------------------------------------------------------ state

\* The nil pointer.
Nil == 0

VARIABLES
    heap,      \* the allocated IntTree nodes, by address
    root,      \* the caller's variable `it`
    inserted,  \* the values passed to Insert so far, in call order
    last,      \* the last call: method, argument, result, what it read
    preHeap,   \* heap as it was when the last call started
    preRoot    \* root as it was when the last call started

\* The other programs of the repository, each in a variable of its own.
VARIABLES
    calc,      \* exercises/05/ex1: the last call of add, sub, mul or div
    ord,       \* 08_generics.md: the last call of OrderableInt.Order
    ovf,       \* the overflow program: the variable, its type, the steps taken
    fl         \* exercises/05/ex2: the call of fileLen in progress

VARIABLES
    alt,       \* a second tree, held by a second caller
    loop,      \* exercises/05/ex1: main's loop over the expressions
    stack      \* 08_generics.md: a Stack[int] and the calls made on it

vars == <<heap, root, inserted, last, preHeap, preRoot, calc, ord, ovf, fl,
          alt, loop, stack>>

\* The second tree, main's loop and the stack.
laterVars == <<alt, loop, stack>>

\* What the programs other than the tree hold.
exerciseVars == <<calc, ord, ovf, fl, laterVars>>

\* What the tree and its caller hold.
treeVars == <<heap, root, inserted, last, preHeap, preRoot>>

\* No error: the nil error value.
NoErr == "nil"

\* The second tree is the nil tree.
AltEmpty == alt = [heap |-> <<>>, root |-> Nil, inserted |-> <<>>]

\* main's loop has not started.
LoopIdle == loop = [pc |-> "idle"]

\* No stack is declared.
StackIdle == stack = [pc |-> "idle"]

\* None of the other programs has started.
ExercisesIdle ==
    /\ calc = [pc |-> "idle", op |-> "none", i |-> 0, j |-> 0, val |-> 0,
               err |-> NoErr, divisors |-> {}]
    /\ ord = [called |-> FALSE, oi |-> 0, val |-> 0, ret |-> 0]
    /\ ovf = [pc |-> "idle"]
    /\ fl = [pc |-> "idle"]
    /\ AltEmpty
    /\ LoopIdle
    /\ StackIdle

\* &IntTree{val: val}: left and right are nil.
NewNode(val) == [left |-> Nil, right |-> Nil, val |-> val]

\* ---------------------------------------------------------------- methods
\* A call yields the heap it leaves, its return value, the set of pointers
\* whose fields it read or wrote (derefs) and the number of calls made,
\* the recursive ones included.  Reading a field of nil panics: the call
\* stops there, with Nil among its derefs.

RECURSIVE Insert(_, _, _)
RECURSIVE Contains(_, _, _)

\* Insert as it would be with the results of the recursive calls dropped
\* (it.left.Insert(val) in place of it.left = it.left.Insert(val)).
RECURSIVE InsertNoLink(_, _, _)
InsertNoLink(h, it, val) ==
    IF it = Nil
    THEN [heap   |-> Append(h, NewNode(val)),
          ret    |-> Len(h) + 1,
          derefs |-> {},
          calls  |-> 1]
    ELSE IF val < h[it].val
    THEN LET r == InsertNoLink(h, h[it].left, val)
         IN  [heap |-> r.heap, ret |-> it,
              derefs |-> {it} \cup r.derefs, calls |-> r.calls + 1]
    ELSE IF val > h[it].val
    THEN LET r == InsertNoLink(h, h[it].right, val)
         IN  [heap |-> r.heap, ret |-> it,
              derefs |-> {it} \cup r.derefs, calls |-> r.calls + 1]
    ELSE [heap |-> h, ret |-> it, derefs |-> {it}, calls |-> 1]

\* Insert as it would be with the two subtrees exchanged: a smaller value
\* goes right, a greater one left.
RECURSIVE InsertSwapped(_, _, _)
InsertSwapped(h, it, val) ==
    IF it = Nil
    THEN [heap   |-> Append(h, NewNode(val)),
          ret    |-> Len(h) + 1,
          derefs |-> {},
          calls  |-> 1]
    ELSE IF val < h[it].val
    THEN LET r == InsertSwapped(h, h[it].right, val)
         IN  [heap   |-> [r.heap EXCEPT ![it].right = r.ret],
              ret    |-> it,
              derefs |-> {it} \cup r.derefs,
              calls  |-> r.calls + 1]
    ELSE IF val > h[it].val
    THEN LET r == InsertSwapped(h, h[it].left, val)
         IN  [heap   |-> [r.heap EXCEPT ![it].left = r.ret],
              ret    |-> it,
              derefs |-> {it} \cup r.derefs,
              calls  |-> r.calls + 1]
    ELSE [heap |-> h, ret |-> it, derefs |-> {it}, calls |-> 1]

\* Insert as it would be with a plain else in place of else if val > it.val:
\* an equal value is sent to the right subtree.
RECURSIVE InsertDupRight(_, _, _)
InsertDupRight(h, it, val) ==
    IF it = Nil
    THEN [heap   |-> Append(h, NewNode(val)),
          ret    |-> Len(h) + 1,
          derefs |-> {},
          calls  |-> 1]
    ELSE IF val < h[it].val
    THEN LET r == InsertDupRight(h, h[it].left, val)
         IN  [heap   |-> [r.heap EXCEPT ![it].left = r.ret],
              ret    |-> it,
              derefs |-> {it} \cup r.derefs,
              calls  |-> r.calls + 1]
    ELSE LET r == InsertDupRight(h, h[it].right, val)
         IN  [heap   |-> [r.heap EXCEPT ![it].right = r.ret],
              ret    |-> it,
              derefs |-> {it} \cup r.derefs,
              calls  |-> r.calls + 1]

\* Insert as it would be with &IntTree{} in place of &IntTree{val: val}.
RECURSIVE InsertZeroNode(_, _, _)
InsertZeroNode(h, it, val) ==
    IF it = Nil
    THEN [heap   |-> Append(h, NewNode(0)),
          ret    |-> Len(h) + 1,
          derefs |-> {},
          calls  |-> 1]
    ELSE IF val < h[it].val
    THEN LET r == InsertZeroNode(h, h[it].left, val)
         IN  [heap   |-> [r.heap EXCEPT ![it].left = r.ret],
              ret    |-> it,
              derefs |-> {it} \cup r.derefs,
              calls  |-> r.calls + 1]
    ELSE IF val > h[it].val
    THEN LET r == InsertZeroNode(h, h[it].right, val)
         IN  [heap   |-> [r.heap EXCEPT ![it].right = r.ret],
              ret    |-> it,
              derefs |-> {it} \cup r.derefs,
              calls  |-> r.calls + 1]
    ELSE [heap |-> h, ret |-> it, derefs |-> {it}, calls |-> 1]

\* Insert as it would be with the node allocated at the top of every call,
\* before the nil test, and used only when the receiver is nil.
RECURSIVE InsertEager(_, _, _)
InsertEager(h, it, val) ==
    LET h1 == Append(h, NewNode(val))
    IN  IF it = Nil
        THEN [heap |-> h1, ret |-> Len(h1), derefs |-> {}, calls |-> 1]
        ELSE IF val < h1[it].val
        THEN LET r == InsertEager(h1, h1[it].left, val)
             IN  [heap   |-> [r.heap EXCEPT ![it].left = r.ret],
                  ret    |-> it,
                  derefs |-> {it} \cup r.derefs,
                  calls  |-> r.calls + 1]
        ELSE IF val > h1[it].val
        THEN LET r == InsertEager(h1, h1[it].right, val)
             IN  [heap   |-> [r.heap EXCEPT ![it].right = r.ret],
                  ret    |-> it,
                  derefs |-> {it} \cup r.derefs,
                  calls  |-> r.calls + 1]
        ELSE [heap |-> h1, ret |-> it, derefs |-> {it}, calls |-> 1]

\* Insert as it would be returning the result of the recursive call in place
\* of the receiver.
RECURSIVE InsertReturnsChild(_, _, _)
InsertReturnsChild(h, it, val) ==
    IF it = Nil
    THEN [heap   |-> Append(h, NewNode(val)),
          ret    |-> Len(h) + 1,
          derefs |-> {},
          calls  |-> 1]
    ELSE IF val < h[it].val
    THEN LET r == InsertReturnsChild(h, h[it].left, val)
         IN  [heap   |-> [r.heap EXCEPT ![it].left = r.ret],
              ret    |-> r.ret,
              derefs |-> {it} \cup r.derefs,
              calls  |-> r.calls + 1]
    ELSE IF val > h[it].val
    THEN LET r == InsertReturnsChild(h, h[it].right, val)
         IN  [heap   |-> [r.heap EXCEPT ![it].right = r.ret],
              ret    |-> r.ret,
              derefs |-> {it} \cup r.derefs,
              calls  |-> r.calls + 1]
    ELSE [heap |-> h, ret |-> it, derefs |-> {it}, calls |-> 1]

\* Insert as it would be without the recursion: the new node is stored in
\* it.left or it.right, whatever subtree was there.
InsertOverChild(h, it, val) ==
    IF it = Nil
    THEN [heap   |-> Append(h, NewNode(val)),
          ret    |-> Len(h) + 1,
          derefs |-> {},
          calls  |-> 1]
    ELSE IF val < h[it].val
    THEN [heap   |-> [Append(h, NewNode(val)) EXCEPT ![it].left = Len(h) + 1],
          ret    |-> it,
          derefs |-> {it},
          calls  |-> 1]
    ELSE IF val > h[it].val
    THEN [heap   |-> [Append(h, NewNode(val)) EXCEPT ![it].right = Len(h) + 1],
          ret    |-> it,
          derefs |-> {it},
          calls  |-> 1]
    ELSE [heap |-> h, ret |-> it, derefs |-> {it}, calls |-> 1]

\* Insert as it would be with the right branch copied from the left one and
\* only its target renamed: it.right = it.left.Insert(val).
RECURSIVE InsertCopyPaste(_, _, _)
InsertCopyPaste(h, it, val) ==
    IF it = Nil
    THEN [heap   |-> Append(h, NewNode(val)),
          ret    |-> Len(h) + 1,
          derefs |-> {},
          calls  |-> 1]
    ELSE IF val < h[it].val
    THEN LET r == InsertCopyPaste(h, h[it].left, val)
         IN  [heap   |-> [r.heap EXCEPT ![it].left = r.ret],
              ret    |-> it,
              derefs |-> {it} \cup r.derefs,
              calls  |-> r.calls + 1]
    ELSE IF val > h[it].val
    THEN LET r == InsertCopyPaste(h, h[it].left, val)
         IN  [heap   |-> [r.heap EXCEPT ![it].right = r.ret],
              ret    |-> it,
              derefs |-> {it} \cup r.derefs,
              calls  |-> r.calls + 1]
    ELSE [heap |-> h, ret |-> it, derefs |-> {it}, calls |-> 1]

\* Insert as it would be on a persistent tree: no node is written, and the
\* receiver is copied with the new subtree in place of the old one.
RECURSIVE InsertPersistent(_, _, _)
InsertPersistent(h, it, val) ==
    IF it = Nil
    THEN [heap   |-> Append(h, NewNode(val)),
          ret    |-> Len(h) + 1,
          derefs |-> {},
          calls  |-> 1]
    ELSE IF val < h[it].val
    THEN LET r == InsertPersistent(h, h[it].left, val)
         IN  [heap   |-> Append(r.heap, [left  |-> r.ret,
                                         right |-> h[it].right,
                                         val   |-> h[it].val]),
              ret    |-> Len(r.heap) + 1,
              derefs |-> {it} \cup r.derefs,
              calls  |-> r.calls + 1]
    ELSE IF val > h[it].val
    THEN LET r == InsertPersistent(h, h[it].right, val)
         IN  [heap   |-> Append(r.heap, [left  |-> h[it].left,
                                         right |-> r.ret,
                                         val   |-> h[it].val]),
              ret    |-> Len(r.heap) + 1,
              derefs |-> {it} \cup r.derefs,
              calls  |-> r.calls + 1]
    ELSE [heap |-> h, ret |-> it, derefs |-> {it}, calls |-> 1]

\* func (it *IntTree) Insert(val int) *IntTree
Insert(h, it, val) ==
    IF it = Nil
    THEN [heap   |-> Append(h, NewNode(val)),
          ret    |-> Len(h) + 1,
          derefs |-> {},
          calls  |-> 1]
    ELSE IF val < h[it].val
    THEN LET r == Insert(h, h[it].left, val)
         IN  [heap   |-> [r.heap EXCEPT ![it].left = r.ret],
              ret    |-> it,
              derefs |-> {it} \cup r.derefs,
              calls  |-> r.calls + 1]
    ELSE IF val > h[it].val
    THEN LET r == Insert(h, h[it].right, val)
         IN  [heap   |-> [r.heap EXCEPT ![it].right = r.ret],
              ret    |-> it,
              derefs |-> {it} \cup r.derefs,
              calls  |-> r.calls + 1]
    ELSE [heap |-> h, ret |-> it, derefs |-> {it}, calls |-> 1]

\* Contains as it would be without the case val > it.val: a greater value
\* falls to the default case.
RECURSIVE ContainsNoRight(_, _, _)
ContainsNoRight(h, it, val) ==
    IF it = Nil
    THEN [heap |-> h, ret |-> FALSE, derefs |-> {}, calls |-> 1]
    ELSE IF val < h[it].val
    THEN LET r == ContainsNoRight(h, h[it].left, val)
         IN  [heap   |-> r.heap,
              ret    |-> r.ret,
              derefs |-> {it} \cup r.derefs,
              calls  |-> r.calls + 1]
    ELSE [heap |-> h, ret |-> TRUE, derefs |-> {it}, calls |-> 1]

\* Contains as it would be with the case it == nil placed last: the cases
\* before it read it.val, which panics on a nil receiver.
RECURSIVE ContainsNilLast(_, _, _)
ContainsNilLast(h, it, val) ==
    IF it = Nil
    THEN [heap |-> h, ret |-> FALSE, derefs |-> {Nil}, calls |-> 1]
    ELSE IF val < h[it].val
    THEN LET r == ContainsNilLast(h, h[it].left, val)
         IN  [heap   |-> r.heap,
              ret    |-> r.ret,
              derefs |-> {it} \cup r.derefs,
              calls  |-> r.calls + 1]
    ELSE IF val > h[it].val
    THEN LET r == ContainsNilLast(h, h[it].right, val)
         IN  [heap   |-> r.heap,
              ret    |-> r.ret,
              derefs |-> {it} \cup r.derefs,
              calls  |-> r.calls + 1]
    ELSE [heap |-> h, ret |-> TRUE, derefs |-> {it}, calls |-> 1]

\* Contains as it would be written on top of Insert: the value is inserted
\* and was present if that allocated nothing.
ContainsViaInsert(h, it, val) ==
    LET r == Insert(h, it, val)
    IN  [heap   |-> r.heap,
         ret    |-> Len(r.heap) = Len(h),
         derefs |-> r.derefs,
         calls  |-> r.calls]

\* Contains as it would be without the case val < it.val: a smaller value
\* falls to the default case.
RECURSIVE ContainsNoLeft(_, _, _)
ContainsNoLeft(h, it, val) ==
    IF it = Nil
    THEN [heap |-> h, ret |-> FALSE, derefs |-> {}, calls |-> 1]
    ELSE IF val > h[it].val
    THEN LET r == ContainsNoLeft(h, h[it].right, val)
         IN  [heap   |-> r.heap,
              ret    |-> r.ret,
              derefs |-> {it} \cup r.derefs,
              calls  |-> r.calls + 1]
    ELSE [heap |-> h, ret |-> TRUE, derefs |-> {it}, calls |-> 1]

\* Contains as it would be with each recursive call made twice: once to
\* test the subtree, once more to return what it holds.
RECURSIVE ContainsTwice(_, _, _)
ContainsTwice(h, it, val) ==
    IF it = Nil
    THEN [heap |-> h, ret |-> FALSE, derefs |-> {}, calls |-> 1]
    ELSE IF val < h[it].val
    THEN LET r == ContainsTwice(h, h[it].left, val)
         IN  [heap   |-> r.heap,
              ret    |-> r.ret,
              derefs |-> {it} \cup r.derefs,
              calls  |-> 2 * r.calls + 1]
    ELSE IF val > h[it].val
    THEN LET r == ContainsTwice(h, h[it].right, val)
         IN  [heap   |-> r.heap,
              ret    |-> r.ret,
              derefs |-> {it} \cup r.derefs,
              calls  |-> 2 * r.calls + 1]
    ELSE [heap |-> h, ret |-> TRUE, derefs |-> {it}, calls |-> 1]

\* func (it *IntTree) Contains(val int) bool
Contains(h, it, val) ==
    IF it = Nil
    THEN [heap |-> h, ret |-> FALSE, derefs |-> {}, calls |-> 1]
    ELSE IF val < h[it].val
    THEN LET r == Contains(h, h[it].left, val)
         IN  [heap   |-> r.heap,
              ret    |-> r.ret,
              derefs |-> {it} \cup r.derefs,
              calls  |-> r.calls + 1]
    ELSE IF val > h[it].val
    THEN LET r == Contains(h, h[it].right, val)
         IN  [heap   |-> r.heap,
              ret    |-> r.ret,
              derefs |-> {it} \cup r.derefs,
              calls  |-> r.calls + 1]
    ELSE [heap |-> h, ret |-> TRUE, derefs |-> {it}, calls |-> 1]

\* ---------------------------------------------------------------- callers

\* var it *IntTree: the empty tree, no node allocated.
TreeEmpty ==
    /\ heap = <<>>
    /\ root = Nil
    /\ inserted = <<>>
    /\ last = [op |-> "none", val |-> 0, ptr |-> Nil, found |-> FALSE,
               rebound |-> FALSE, derefs |-> {}, calls |-> 0]
    /\ preHeap = <<>>
    /\ preRoot = Nil

Init == TreeEmpty /\ ExercisesIdle

\* it = it.Insert(v)
CallInsertRebind(v) ==
    /\ Len(inserted) < MaxOps
    /\ LET r == Insert(heap, root, v)
       IN  /\ heap' = r.heap
           /\ root' = r.ret
           /\ last' = [op |-> "Insert", val |-> v, ptr |-> r.ret,
                       found |-> FALSE, rebound |-> TRUE,
                       derefs |-> r.derefs, calls |-> r.calls]
    /\ inserted' = Append(inserted, v)
    /\ preHeap' = heap
    /\ preRoot' = root
    /\ UNCHANGED exerciseVars

\* it.Insert(v): the result is dropped
CallInsertDiscard(v) ==
    /\ Len(inserted) < MaxOps
    /\ LET r == Insert(heap, root, v)
       IN  /\ heap' = r.heap
           /\ last' = [op |-> "Insert", val |-> v, ptr |-> r.ret,
                       found |-> FALSE, rebound |-> FALSE,
                       derefs |-> r.derefs, calls |-> r.calls]
    /\ root' = root
    /\ inserted' = Append(inserted, v)
    /\ preHeap' = heap
    /\ preRoot' = root
    /\ UNCHANGED exerciseVars

\* it.Contains(v)
CallContains(v) ==
    /\ LET r == Contains(heap, root, v)
       IN  /\ heap' = r.heap
           /\ last' = [op |-> "Contains", val |-> v, ptr |-> Nil,
                       found |-> r.ret, rebound |-> FALSE,
                       derefs |-> r.derefs, calls |-> r.calls]
    /\ root' = root
    /\ inserted' = inserted
    /\ preHeap' = heap
    /\ preRoot' = root
    /\ UNCHANGED exerciseVars

\* The caller the tree's contract asks for: every Insert result is rebound.
Next ==
    \E v \in Vals :
        \/ CallInsertRebind(v)
        \/ CallContains(v)

Spec == Init /\ [][Next]_vars

\* A caller that may also drop the result of Insert.
NextCaller ==
    \E v \in Vals :
        \/ CallInsertRebind(v)
        \/ CallInsertDiscard(v)
        \/ CallContains(v)

SpecCaller == Init /\ [][NextCaller]_vars

\* The rebinding caller over the values of the scenario.
NextScenario ==
    \E v \in ScenarioVals :
        \/ CallInsertRebind(v)
        \/ CallContains(v)

SpecScenario == Init /\ [][NextScenario]_vars

\* it = it.Insert(v), by a caller whose input is sorted: v is no less than
\* the value inserted before it.
CallInsertSorted(v) ==
    /\ Len(inserted) < ChainLen
    /\ inserted # <<>> => v >= inserted[Len(inserted)]
    /\ LET r == Insert(heap, root, v)
       IN  /\ heap' = r.heap
           /\ root' = r.ret
           /\ last' = [op |-> "Insert", val |-> v, ptr |-> r.ret,
                       found |-> FALSE, rebound |-> TRUE,
                       derefs |-> r.derefs, calls |-> r.calls]
    /\ inserted' = Append(inserted, v)
    /\ preHeap' = heap
    /\ preRoot' = root
    /\ UNCHANGED exerciseVars

\* The rebinding caller with sorted input.
NextChain ==
    \E v \in ChainVals :
        \/ CallInsertSorted(v)
        \/ CallContains(v)

SpecChain == Init /\ [][NextChain]_vars

\* it := &IntTree{}: main's root is a node, with the zero value of every
\* field.
InitDemo ==
    /\ heap = <<[left |-> Nil, right |-> Nil, val |-> 0]>>
    /\ root = 1
    /\ inserted = <<>>
    /\ last = [op |-> "none", val |-> 0, ptr |-> Nil, found |-> FALSE,
               rebound |-> FALSE, derefs |-> {}, calls |-> 0]
    /\ preHeap = <<[left |-> Nil, right |-> Nil, val |-> 0]>>
    /\ preRoot = 1
    /\ ExercisesIdle

\* The statements of main: the result of the first Insert is rebound, the
\* results of the later ones are dropped.
NextDemo ==
    \E v \in ScenarioVals :
        \/ inserted = <<>> /\ CallInsertRebind(v)
        \/ inserted # <<>> /\ CallInsertDiscard(v)
        \/ CallContains(v)

SpecDemo == InitDemo /\ [][NextDemo]_vars

\* The statements of main over 0..MaxVal, so that the caller may also pass
\* the zero value to Insert and Contains.
NextZero ==
    \E v \in Vals :
        \/ inserted = <<>> /\ CallInsertRebind(v)
        \/ inserted # <<>> /\ CallInsertDiscard(v)
        \/ CallContains(v)

SpecZero == InitDemo /\ [][NextZero]_vars

\* Each of two callers makes at most PairLen Insert calls, of values among
\* PairVals.
PairLen == 3

PairVals == 0..2

\* it = it.Insert(v), by the first of two callers.
CallInsertFirst(v) ==
    /\ Len(inserted) < PairLen
    /\ LET r == Insert(heap, root, v)
       IN  /\ heap' = r.heap
           /\ root' = r.ret
           /\ last' = [op |-> "Insert", val |-> v, ptr |-> r.ret,
                       found |-> FALSE, rebound |-> TRUE,
                       derefs |-> r.derefs, calls |-> r.calls]
    /\ inserted' = Append(inserted, v)
    /\ preHeap' = heap
    /\ preRoot' = root
    /\ UNCHANGED exerciseVars

\* it = it.Insert(v), by the second caller, on a tree of its own.
CallInsertAlt(v) ==
    /\ Len(alt.inserted) < PairLen
    /\ LET r == Insert(alt.heap, alt.root, v)
       IN  alt' = [heap |-> r.heap, root |-> r.ret,
                   inserted |-> Append(alt.inserted, v)]
    /\ UNCHANGED <<treeVars, calc, ord, ovf, fl, loop, stack>>

\* Two callers, each rebinding every Insert result, each from the nil tree.
NextPair ==
    \E v \in PairVals :
        \/ CallInsertFirst(v)
        \/ CallInsertAlt(v)

SpecPair == Init /\ [][NextPair]_vars

\* ------------------------------------------------- the calculator (ex1)
\* int is modelled IntBits wide, in two's complement: the result of an
\* operation is wrapped into MinInt..MaxInt.

IntBits == 4

MinInt == -(2 ^ (IntBits - 1))
MaxInt == 2 ^ (IntBits - 1) - 1
Ints == MinInt..MaxInt

\* The int an operation yields: x modulo 2^IntBits, in MinInt..MaxInt.
Wrap(x) == ((x - MinInt) % (2 ^ IntBits)) + MinInt

Abs(x) == IF x < 0 THEN -x ELSE x

\* i / j of Go for j # 0: the quotient truncated toward zero.
Quot(i, j) ==
    IF (i < 0) = (j < 0) THEN Abs(i) \div Abs(j) ELSE -(Abs(i) \div Abs(j))

\* An operator function yields its int, its error and the divisors of the
\* divisions it made; a division by 0 panics.

\* func add(i, j int) (int, error)
add(i, j) == [val |-> Wrap(i + j), err |-> NoErr, divisors |-> {}]

\* func sub(i, j int) (int, error)
sub(i, j) == [val |-> Wrap(i - j), err |-> NoErr, divisors |-> {}]

\* func mul(i, j int) (int, error)
mul(i, j) == [val |-> Wrap(i * j), err |-> NoErr, divisors |-> {}]

\* div as it would be with the dividend tested in place of the divisor
\* (if i == 0).
divTestsDividend(i, j) ==
    IF i = 0
    THEN [val |-> 0, err |-> "division by zero", divisors |-> {}]
    ELSE [val      |-> IF j = 0 THEN 0 ELSE Wrap(Quot(i, j)),
          err      |-> NoErr,
          divisors |-> {j}]

\* func div(i, j int) (int, error)
div(i, j) ==
    IF j = 0
    THEN [val |-> 0, err |-> "division by zero", divisors |-> {}]
    ELSE [val |-> Wrap(Quot(i, j)), err |-> NoErr, divisors |-> {j}]

\* The keys of opMap.
Operators == {"+", "-", "*", "/"}

\* opMap[op](i, j)
opMap(op, i, j) ==
    CASE op = "+" -> add(i, j)
      [] op = "-" -> sub(i, j)
      [] op = "*" -> mul(i, j)
      [] op = "/" -> div(i, j)

\* The operator function and the two ints main has ready for the call:
\* any key of opMap and any two ints.
InitCalc ==
    /\ TreeEmpty
    /\ calc \in [pc : {"call"}, op : Operators, i : Ints, j : Ints,
                 val : {0}, err : {NoErr}, divisors : {{}}]
    /\ ord = [called |-> FALSE, oi |-> 0, val |-> 0, ret |-> 0]
    /\ ovf = [pc |-> "idle"]
    /\ fl = [pc |-> "idle"]
    /\ AltEmpty /\ LoopIdle /\ StackIdle

\* result, err := opFunc(p1, p2)
CallOpFunc ==
    /\ calc.pc = "call"
    /\ LET r == opMap(calc.op, calc.i, calc.j)
       IN  calc' = [calc EXCEPT !.pc = "done", !.val = r.val, !.err = r.err,
                                !.divisors = r.divisors]
    /\ UNCHANGED <<treeVars, ord, ovf, fl, laterVars>>

NextCalc == CallOpFunc

SpecCalc == InitCalc /\ [][NextCalc]_vars

\* ------------------------------------- main of the calculator (ex1)
\* A string is the sequence of its characters, so that strconv.Atoi has
\* something to parse; an expression is a sequence of strings.

\* main evaluates at most MaxExprs expressions, of at most MaxTokens tokens.
MaxExprs == 2
MaxTokens == 4

\* The elements of main's expressions.
ListedExpressions ==
    { << <<"2">>, <<"+">>, <<"3">> >>,
      << <<"2">>, <<"-">>, <<"3">> >>,
      << <<"2">>, <<"*">>, <<"3">> >>,
      << <<"2">>, <<"/">>, <<"3">> >>,
      << <<"2">>, <<"%">>, <<"3">> >>,
      << <<"t", "w", "o">>, <<"+">>, <<"t", "h", "r", "e", "e">> >>,
      << <<"5">> >>,
      << <<"2">>, <<"/">>, <<"0">> >> }

\* Strings an expression is made of: ints, with and without a sign, a
\* numeral too great for an int, a word, the four operators and one more.
Tokens ==
    { <<"2">>, <<"0">>, <<"-", "3">>, <<"9", "9">>, <<"t", "w", "o">>,
      <<"+">>, <<"-">>, <<"*">>, <<"/">>, <<"%">> }

\* The expressions main may be given: its own, every expression of three
\* of the strings above, and those of any length up to MaxTokens made of a
\* numeral and an operator.
Expressions ==
    ListedExpressions
    \cup [1..3 -> Tokens]
    \cup UNION {[1..n -> {<<"2">>, <<"+">>}] : n \in 0..MaxTokens}

DigitChars == <<"0", "1", "2", "3", "4", "5", "6", "7", "8", "9">>

IsDigit(c) == \E d \in 1..10 : DigitChars[d] = c

DigitOf(c) == (CHOOSE d \in 1..10 : DigitChars[d] = c) - 1

\* The digits of s read from the left, on top of acc.
RECURSIVE ParseDecimal(_, _)
ParseDecimal(s, acc) ==
    IF s = <<>>
    THEN acc
    ELSE ParseDecimal(Tail(s), acc * 10 + DigitOf(Head(s)))

\* strconv.Atoi(s): an optional sign and one or more decimal digits; the
\* error is "invalid syntax" for anything else and "value out of range"
\* for a numeral no int holds.
Atoi(s) ==
    LET signed == s # <<>> /\ s[1] \in {"+", "-"}
        neg    == s # <<>> /\ s[1] = "-"
        body   == IF signed THEN Tail(s) ELSE s
    IN  IF body = <<>> \/ \E k \in DOMAIN body : ~IsDigit(body[k])
        THEN [val |-> 0, err |-> "invalid syntax"]
        ELSE LET n == ParseDecimal(body, 0)
             IN  IF ~neg /\ n > MaxInt
                 THEN [val |-> MaxInt, err |-> "value out of range"]
                 ELSE IF neg /\ n > -MinInt
                 THEN [val |-> MinInt, err |-> "value out of range"]
                 ELSE [val |-> IF neg THEN -n ELSE n, err |-> NoErr]

\* _, ok := opMap[key]
HasKey(key) == Len(key) = 1 /\ key[1] \in Operators

\* fmt.Println(...) followed by continue (or by the end of the body): the
\* line is what was printed, by the kind of statement and its operands.
PrintLine(kind, err, num, tokens) ==
    [loop EXCEPT !.pc = "continue",
                 !.printed = @ + 1,
                 !.lines = Append(@, [kind |-> kind, err |-> err,
                                      num |-> num, tokens |-> tokens])]

\* main starts: nothing evaluated, nothing printed.
InitLoop ==
    /\ TreeEmpty
    /\ calc = [pc |-> "idle", op |-> "none", i |-> 0, j |-> 0, val |-> 0,
               err |-> NoErr, divisors |-> {}]
    /\ ord = [called |-> FALSE, oi |-> 0, val |-> 0, ret |-> 0]
    /\ ovf = [pc |-> "idle"]
    /\ fl = [pc |-> "idle"]
    /\ AltEmpty /\ StackIdle
    /\ loop = [pc |-> "range", done |-> 0, printed |-> 0,
               expression |-> <<>>, p1 |-> 0, op |-> "none", p2 |-> 0,
               lines |-> <<>>, calls |-> 0]

\* for _, expression := range expressions
RangeNext ==
    /\ loop.pc = "range"
    /\ loop.done < MaxExprs
    /\ \E e \in Expressions :
          loop' = [loop EXCEPT !.pc = "len", !.expression = e]
    /\ UNCHANGED <<treeVars, calc, ord, ovf, fl, alt, stack>>

\* The length test as it would be with < in place of !=
\* (if len(expression) < 3).
CheckLenAtLeast ==
    /\ loop.pc = "len"
    /\ loop' = IF Len(loop.expression) < 3
               THEN PrintLine("invalid", NoErr, 0, loop.expression)
               ELSE [loop EXCEPT !.pc = "atoi1"]
    /\ UNCHANGED <<treeVars, calc, ord, ovf, fl, alt, stack>>

\* if len(expression) != 3 { Println("Invalid expression:", expression) }
CheckLen ==
    /\ loop.pc = "len"
    /\ loop' = IF Len(loop.expression) # 3
               THEN PrintLine("invalid", NoErr, 0, loop.expression)
               ELSE [loop EXCEPT !.pc = "atoi1"]
    /\ UNCHANGED <<treeVars, calc, ord, ovf, fl, alt, stack>>

\* p1, err := strconv.Atoi(expression[0]); if err != nil { Println(err) }
ParseFirst ==
    /\ loop.pc = "atoi1"
    /\ LET r == Atoi(loop.expression[1])
       IN  loop' = IF r.err # NoErr
                   THEN PrintLine("error", r.err, 0, <<loop.expression[1]>>)
                   ELSE [loop EXCEPT !.pc = "op", !.p1 = r.val]
    /\ UNCHANGED <<treeVars, calc, ord, ovf, fl, alt, stack>>

\* opFunc, ok := opMap[expression[1]]; if !ok { Println("unsupported
\* operator:", expression[1]) }
LookupOp ==
    /\ loop.pc = "op"
    /\ loop' = IF ~HasKey(loop.expression[2])
               THEN PrintLine("unsupported", NoErr, 0, <<loop.expression[2]>>)
               ELSE [loop EXCEPT !.pc = "atoi2", !.op = loop.expression[2][1]]
    /\ UNCHANGED <<treeVars, calc, ord, ovf, fl, alt, stack>>

\* p2, err := strconv.Atoi(expression[2]); if err != nil { Println(err) }
ParseSecond ==
    /\ loop.pc = "atoi2"
    /\ LET r == Atoi(loop.expression[3])
       IN  loop' = IF r.err # NoErr
                   THEN PrintLine("error", r.err, 0, <<loop.expression[3]>>)
                   ELSE [loop EXCEPT !.pc = "call", !.p2 = r.val]
    /\ UNCHANGED <<treeVars, calc, ord, ovf, fl, alt, stack>>

\* result, err := opFunc(p1, p2); if err != nil { Println(err) } else
\* Println(result)
Evaluate ==
    /\ loop.pc = "call"
    /\ LET r == opMap(loop.op, loop.p1, loop.p2)
       IN  loop' = IF r.err # NoErr
                   THEN [PrintLine("error", r.err, 0, <<>>)
                            EXCEPT !.calls = loop.calls + 1]
                   ELSE [PrintLine("result", NoErr, r.val, <<>>)
                            EXCEPT !.calls = loop.calls + 1]
    /\ UNCHANGED <<treeVars, calc, ord, ovf, fl, alt, stack>>

\* continue, or the end of the body: the variables of the body are gone.
Continue ==
    /\ loop.pc = "continue"
    /\ loop' = [pc |-> "range", done |-> loop.done + 1,
                printed |-> loop.printed, expression |-> <<>>, p1 |-> 0,
                op |-> "none", p2 |-> 0, lines |-> <<>>, calls |-> 0]
    /\ UNCHANGED <<treeVars, calc, ord, ovf, fl, alt, stack>>

NextLoop ==
    \/ RangeNext
    \/ CheckLen
    \/ ParseFirst
    \/ LookupOp
    \/ ParseSecond
    \/ Evaluate
    \/ Continue

SpecLoop == InitLoop /\ [][NextLoop]_vars

\* ------------------------------------------ OrderableInt (08_generics.md)

\* func (oi OrderableInt) Order(val any) int: the difference of two
\* OrderableInt is an OrderableInt, so it wraps like an int.
Order(oi, val) == Wrap(oi - val)

\* The receiver and the argument of a call: any two OrderableInt.
InitOrder ==
    /\ TreeEmpty
    /\ calc = [pc |-> "idle", op |-> "none", i |-> 0, j |-> 0, val |-> 0,
               err |-> NoErr, divisors |-> {}]
    /\ ord \in [called : {FALSE}, oi : Ints, val : Ints, ret : {0}]
    /\ ovf = [pc |-> "idle"]
    /\ fl = [pc |-> "idle"]
    /\ AltEmpty /\ LoopIdle /\ StackIdle

\* comp := val.Order(t.val)
CallOrder ==
    /\ ~ord.called
    /\ ord' = [ord EXCEPT !.called = TRUE, !.ret = Order(ord.oi, ord.val)]
    /\ UNCHANGED <<treeVars, calc, ovf, fl, laterVars>>

NextOrder == CallOrder

SpecOrder == InitOrder /\ [][NextOrder]_vars

\* ------------------------------------------- Stack[T] (08_generics.md)
\* A Stack[int]: vals is the slice s.vals, its first element the oldest.

\* main makes at most MaxStackOps calls of Push and Pop.
MaxStackOps == 5

\* The values main pushes, and the zero value of int.
StackVals == {0, 10, 20, 30}

\* var zero T, for T = int
zero == 0

\* func (s *Stack[T]) Push(val T)
Push(vals, val) == Append(vals, val)

\* Pop as it would be taking the oldest value: top := s.vals[0] and
\* s.vals = s.vals[1:].
PopFront(vals) ==
    IF Len(vals) = 0
    THEN [vals |-> vals, ret |-> zero, ok |-> FALSE]
    ELSE [vals |-> Tail(vals), ret |-> Head(vals), ok |-> TRUE]

\* func (s *Stack[T]) Pop() (T, bool)
Pop(vals) ==
    IF Len(vals) = 0
    THEN [vals |-> vals, ret |-> zero, ok |-> FALSE]
    ELSE [vals |-> SubSeq(vals, 1, Len(vals) - 1),
          ret  |-> vals[Len(vals)],
          ok   |-> TRUE]

\* var intStack Stack[int]: vals is the nil slice.  log is the calls made
\* so far with what they returned, pre is vals as the last call found it.
InitStack ==
    /\ TreeEmpty
    /\ calc = [pc |-> "idle", op |-> "none", i |-> 0, j |-> 0, val |-> 0,
               err |-> NoErr, divisors |-> {}]
    /\ ord = [called |-> FALSE, oi |-> 0, val |-> 0, ret |-> 0]
    /\ ovf = [pc |-> "idle"]
    /\ fl = [pc |-> "idle"]
    /\ AltEmpty /\ LoopIdle
    /\ stack = [pc |-> "run", vals |-> <<>>, pre |-> <<>>, log |-> <<>>]

\* intStack.Push(v)
CallPush(v) ==
    /\ stack.pc = "run"
    /\ Len(stack.log) < MaxStackOps
    /\ stack' = [stack EXCEPT
                    !.vals = Push(stack.vals, v),
                    !.pre  = stack.vals,
                    !.log  = Append(@, [op |-> "Push", val |-> v, ok |-> TRUE])]
    /\ UNCHANGED <<treeVars, calc, ord, ovf, fl, alt, loop>>

\* v, ok := intStack.Pop()
CallPop ==
    /\ stack.pc = "run"
    /\ Len(stack.log) < MaxStackOps
    /\ LET r == Pop(stack.vals)
       IN  stack' = [stack EXCEPT
                       !.vals = r.vals,
                       !.pre  = stack.vals,
                       !.log  = Append(@, [op |-> "Pop", val |-> r.ret,
                                           ok |-> r.ok])]
    /\ UNCHANGED <<treeVars, calc, ord, ovf, fl, alt, loop>>

NextStack ==
    \/ \E v \in StackVals : CallPush(v)
    \/ CallPop

SpecStack == InitStack /\ [][NextStack]_vars

\* ------------------------------------------------- the overflow program
\* A value of a sized integer type is its bytes, the least significant
\* first: 1 byte for byte, 4 for int32, 8 for uint64.  A literal is a
\* sequence of decimal digits, the most significant first.

\* A variable starts at most MaxBelow below its literal, and 1 is added to
\* it at most MaxSteps times.
MaxBelow == 7
MaxSteps == 4

IntTypes == {"byte", "int32", "uint64"}

\* The size of a type in bytes.
SizeOf(t) == CASE t = "byte" -> 1 [] t = "int32" -> 4 [] t = "uint64" -> 8

IsSigned(t) == t = "int32"

\* The literals of main: 255, 2147483647, 18446744073709551615.
Literal(t) ==
    CASE t = "byte"   -> <<2, 5, 5>>
      [] t = "int32"  -> <<2, 1, 4, 7, 4, 8, 3, 6, 4, 7>>
      [] t = "uint64" -> <<1, 8, 4, 4, 6, 7, 4, 4, 0, 7, 3, 7, 0, 9, 5, 5, 1, 6, 1, 5>>

Zeros(n) == [k \in 1..n |-> 0]

RECURSIVE MulAdd(_, _, _)
RECURSIVE ParseDigits(_, _)
RECURSIVE AddBytes(_, _, _)
RECURSIVE DivRem(_, _)
RECURSIVE Digits(_)

\* l * m + c on the bytes of l; what does not fit in them is lost.
MulAdd(l, m, c) ==
    IF l = <<>> THEN <<>>
    ELSE LET t == Head(l) * m + c
         IN  <<t % 256>> \o MulAdd(Tail(l), m, t \div 256)

\* The bytes of a decimal literal, read digit by digit into acc.
ParseDigits(ds, acc) ==
    IF ds = <<>> THEN acc
    ELSE ParseDigits(Tail(ds), MulAdd(acc, 10, Head(ds)))

\* The value of the literal ds in the type t.
Const(t, ds) == ParseDigits(ds, Zeros(SizeOf(t)))

\* a + b + c on bytes; the carry out of the last byte is lost.
AddBytes(a, b, c) ==
    IF a = <<>> THEN <<>>
    ELSE LET t == Head(a) + Head(b) + c
         IN  <<t % 256>> \o AddBytes(Tail(a), Tail(b), t \div 256)

\* The sign bit of a value.
TopBit(l) == l[Len(l)] >= 128

\* The greatest value of the type t.
MaxOf(t) ==
    [k \in 1..SizeOf(t) |-> IF IsSigned(t) /\ k = SizeOf(t) THEN 127 ELSE 255]

\* The least value of the type t.
MinOf(t) ==
    [k \in 1..SizeOf(t) |-> IF IsSigned(t) /\ k = SizeOf(t) THEN 128 ELSE 0]

\* x + y as it would be if the sum stopped at the greatest value of the
\* type in place of wrapping around.
AddSaturating(t, x, y) ==
    LET r == AddBytes(x, y, 0)
        over == IF IsSigned(t)
                THEN TopBit(x) = TopBit(y) /\ TopBit(r) # TopBit(x)
                ELSE \E k \in 1..Len(x) :
                        /\ r[k] < x[k]
                        /\ \A m \in (k + 1)..Len(x) : r[m] = x[m]
    IN  [val |-> IF over THEN MaxOf(t) ELSE r, err |-> NoErr]

\* x + y in the type t: the sum modulo 2^(8 * SizeOf(t)), and no error.
AddInt(t, x, y) == [val |-> AddBytes(x, y, 0), err |-> NoErr]

\* The two's complement of l: the magnitude of a negative value.
Negate(l) == AddBytes([k \in 1..Len(l) |-> 255 - l[k]], Zeros(Len(l)), 1)

\* The quotient and the remainder of l by d, from the last byte down.
DivRem(l, d) ==
    IF l = <<>> THEN [q |-> <<>>, r |-> 0]
    ELSE LET hi == DivRem(Tail(l), d)
             t  == hi.r * 256 + Head(l)
         IN  [q |-> <<t \div d>> \o hi.q, r |-> t % d]

\* The decimal digits of l; none for 0.
Digits(l) ==
    IF l = Zeros(Len(l)) THEN <<>>
    ELSE LET dr == DivRem(l, 10) IN Digits(dr.q) \o <<dr.r>>

\* fmt.Println of a value of the type t: a sign and decimal digits.
Format(t, l) ==
    LET neg == IsSigned(t) /\ TopBit(l)
        mag == IF neg THEN Negate(l) ELSE l
    IN  [neg |-> neg, digits |-> IF mag = Zeros(Len(l)) THEN <<0>> ELSE Digits(mag)]

\* var b byte = 255, var smallI int32 = 2147483647, var bigI uint64 =
\* 18446744073709551615: one variable of one of the three types, holding
\* its literal or a value a little below it.
InitOverflow ==
    /\ TreeEmpty
    /\ calc = [pc |-> "idle", op |-> "none", i |-> 0, j |-> 0, val |-> 0,
               err |-> NoErr, divisors |-> {}]
    /\ ord = [called |-> FALSE, oi |-> 0, val |-> 0, ret |-> 0]
    /\ \E t \in IntTypes, k \in 0..MaxBelow :
          LET v == [Const(t, Literal(t)) EXCEPT ![1] = @ - k]
          IN  ovf = [pc |-> "run", type |-> t, start |-> v, val |-> v,
                     steps |-> 0, err |-> NoErr]
    /\ fl = [pc |-> "idle"]
    /\ AltEmpty /\ LoopIdle /\ StackIdle

\* b = b + 1
AddOne ==
    /\ ovf.pc = "run"
    /\ ovf.steps < MaxSteps
    /\ LET r == AddInt(ovf.type, ovf.val, Const(ovf.type, <<1>>))
       IN  ovf' = [ovf EXCEPT !.val = r.val, !.err = r.err,
                              !.steps = @ + 1]
    /\ UNCHANGED <<treeVars, calc, ord, fl, laterVars>>

NextOverflow == AddOne

SpecOverflow == InitOverflow /\ [][NextOverflow]_vars

\* --------------------------------------------------------- fileLen (ex2)

\* A call of fileLen makes at most MaxReads calls of Read.
MaxReads == 4

\* data := make([]byte, 2048)
BufSize == 2048

\* io.EOF
EOF == "EOF"

\* The errors os.Open and Read may report, io.EOF aside.
OpenErrs == {"ENOENT", "EACCES"}
ReadErrs == {"EIO"}

\* The counts Read may return for a buffer of BufSize bytes.
ReadCounts == {0, 1, BufSize}

RECURSIVE SumCounts(_)

\* The sum of the counts of the Read calls made.
SumCounts(rs) == IF rs = <<>> THEN 0 ELSE Head(rs).count + SumCounts(Tail(rs))

\* The body of the loop as it would be with the error tested before the
\* count is added.
ReadStepTestsFirst(total, count, err) ==
    IF err # NoErr
    THEN IF err # EOF
         THEN [done |-> TRUE, total |-> total, n |-> 0, err |-> err]
         ELSE [done |-> TRUE, total |-> total, n |-> total, err |-> NoErr]
    ELSE [done |-> FALSE, total |-> total + count, n |-> 0, err |-> NoErr]

\* The body of the loop, for a Read that returned count and err, and what
\* fileLen returns when the loop ends there.  total is an int, and a file
\* holds fewer bytes than the greatest int.
ReadStep(total, count, err) ==
    LET t == total + count
    IN  IF err # NoErr
        THEN IF err # EOF
             THEN [done |-> TRUE, total |-> t, n |-> 0, err |-> err]
             ELSE [done |-> TRUE, total |-> t, n |-> t, err |-> NoErr]
        ELSE [done |-> FALSE, total |-> t, n |-> 0, err |-> NoErr]

\* fileLen(file) is called.
InitFile ==
    /\ TreeEmpty
    /\ calc = [pc |-> "idle", op |-> "none", i |-> 0, j |-> 0, val |-> 0,
               err |-> NoErr, divisors |-> {}]
    /\ ord = [called |-> FALSE, oi |-> 0, val |-> 0, ret |-> 0]
    /\ ovf = [pc |-> "idle"]
    /\ fl = [pc |-> "open", openErr |-> NoErr, reads |-> <<>>, total |-> 0,
             closed |-> FALSE, n |-> 0, err |-> NoErr]
    /\ AltEmpty /\ LoopIdle /\ StackIdle

\* f, err := os.Open(file); if err != nil { return 0, err }; defer f.Close()
Open ==
    /\ fl.pc = "open"
    /\ \E e \in OpenErrs \cup {NoErr} :
          fl' = IF e # NoErr
                THEN [fl EXCEPT !.pc = "done", !.openErr = e, !.n = 0,
                                !.err = e]
                ELSE [fl EXCEPT !.pc = "read"]
    /\ UNCHANGED <<treeVars, calc, ord, ovf, laterVars>>

\* One turn of the loop: count, err := f.Read(data) and what follows it;
\* f is closed when fileLen returns.
Read ==
    /\ fl.pc = "read"
    /\ Len(fl.reads) < MaxReads
    /\ \E count \in ReadCounts, e \in {NoErr, EOF} \cup ReadErrs :
          LET r == ReadStep(fl.total, count, e)
          IN  fl' = [fl EXCEPT !.pc = IF r.done THEN "done" ELSE "read",
                               !.reads = Append(@, [count |-> count, err |-> e]),
                               !.total = r.total,
                               !.closed = r.done,
                               !.n = r.n,
                               !.err = r.err]
    /\ UNCHANGED <<treeVars, calc, ord, ovf, laterVars>>

NextFile == Open \/ Read

SpecFile == InitFile /\ [][NextFile]_vars

\* ---------------------------------------------------- reading the structure

\* The values of a sequence.
Range(s) == {s[i] : i \in DOMAIN s}

\* Every value a caller of any of the specifications may pass.
AllVals == Vals \cup ScenarioVals \cup ChainVals

RECURSIVE Nodes(_, _)
RECURSIVE InOrder(_, _)

\* The nodes of the tree at it: it and whatever its left and right links reach.
Nodes(h, it) ==
    IF it = Nil THEN {}
    ELSE {it} \cup Nodes(h, h[it].left) \cup Nodes(h, h[it].right)

\* The values stored in the tree at it.
ValuesOf(h, it) == {h[n].val : n \in Nodes(h, it)}

\* In-order traversal: left subtree, node value, right subtree.
InOrder(h, it) ==
    IF it = Nil THEN <<>>
    ELSE InOrder(h, h[it].left) \o <<h[it].val>> \o InOrder(h, h[it].right)

StrictlyAscending(s) == \A i \in 1..(Len(s) - 1) : s[i] < s[i + 1]

\* The nodes the left and right links of n point to.
Children(h, n) == {h[n].left, h[n].right} \ {Nil}

RECURSIVE Reach(_, _, _)

\* The nodes reached from those of S by following at most k links.
Reach(h, S, k) ==
    IF k = 0 THEN S
    ELSE Reach(h, S \cup UNION {Children(h, n) : n \in S}, k - 1)

\* The nodes reached from it, whatever the shape of the links.
Reachable(h, it) == IF it = Nil THEN {} ELSE Reach(h, {it}, Len(h))

\* The nodes below n.
Descendants(h, n) == Reach(h, Children(h, n), Len(h))

\* The links that point to n: the node that holds each, and the field.
ParentLinks(h, n) ==
    {<<p, "left">> : p \in {q \in DOMAIN h : h[q].left = n}}
        \cup {<<p, "right">> : p \in {q \in DOMAIN h : h[q].right = n}}

RECURSIVE CountPaths(_, _, _, _)

\* The number of paths of fewer than fuel links from the node from down
\* to the node to.
CountPaths(h, from, to, fuel) ==
    IF from = Nil \/ fuel = 0 THEN 0
    ELSE (IF from = to THEN 1 ELSE 0)
            + CountPaths(h, h[from].left, to, fuel - 1)
            + CountPaths(h, h[from].right, to, fuel - 1)

RECURSIVE SearchSlot(_, _, _, _)

\* The place a search for val ends: down from the link slot, left of a node
\* that holds more and right of one that holds less, to a nil link (a pair
\* of the node that holds it and the field, or of Nil and "root") or to the
\* node that holds val (a pair of the node and "here").
SearchSlot(h, slot, it, val) ==
    IF it = Nil THEN slot
    ELSE IF val < h[it].val THEN SearchSlot(h, <<it, "left">>, h[it].left, val)
    ELSE IF val > h[it].val THEN SearchSlot(h, <<it, "right">>, h[it].right, val)
    ELSE <<it, "here">>

\* The links that are nil in the heap g and not in the heap h.
FilledLinks(g, h) ==
    {<<p, "left">> : p \in {q \in DOMAIN g : g[q].left = Nil /\ h[q].left # Nil}}
        \cup {<<p, "right">> :
                p \in {q \in DOMAIN g : g[q].right = Nil /\ h[q].right # Nil}}

RECURSIVE Depth(_, _)

\* The number of nodes on the longest path from it down to a leaf.
Depth(h, it) ==
    IF it = Nil THEN 0
    ELSE LET l == Depth(h, h[it].left)
             r == Depth(h, h[it].right)
         IN  1 + (IF l > r THEN l ELSE r)

\* ----------------------------------------------------------------- claims

\* C1 (membership correctness): from the empty tree, with every Insert
\* result rebound, Contains is true of every value inserted so far; a
\* Contains call the caller makes for such a value returns true.
C1_Membership ==
    /\ \A i \in DOMAIN inserted : Contains(heap, root, inserted[i]).ret
    /\ (last.op = "Contains" /\ last.val \in Range(inserted)) => last.found

C1_Witness ==
    /\ Len(inserted) >= 3
    /\ Cardinality(Range(inserted)) >= 3
    /\ last.op = "Contains"
    /\ last.val = inserted[3]
    /\ last.found

\* C2 (non-membership): from the empty tree, Contains is false of every
\* value that was never inserted.
C2_NonMembership ==
    /\ \A x \in AllVals \ Range(inserted) : ~Contains(heap, root, x).ret
    /\ (last.op = "Contains" /\ last.val \notin Range(inserted)) => ~last.found

C2_Witness ==
    /\ Len(inserted) >= 3
    /\ last.op = "Contains"
    /\ last.val \notin Range(inserted)
    /\ \E x \in Range(inserted) : x < last.val
    /\ \E x \in Range(inserted) : x > last.val
    /\ ~last.found

\* C3 (order invariant): in every tree built by Insert calls, the values of
\* a node's left subtree are strictly less than the node's value and those
\* of its right subtree strictly greater; the in-order traversal is
\* strictly ascending, so holds no value twice.
C3_OrderInvariant ==
    /\ \A n \in Nodes(heap, root) :
          /\ \A x \in ValuesOf(heap, heap[n].left) : x < heap[n].val
          /\ \A x \in ValuesOf(heap, heap[n].right) : x > heap[n].val
    /\ StrictlyAscending(InOrder(heap, root))

C3_Witness ==
    /\ Len(InOrder(heap, root)) >= 3
    /\ \E n \in Nodes(heap, root) : heap[n].left # Nil /\ heap[n].right # Nil
    /\ Cardinality(Range(inserted)) < Len(inserted)

\* C4 (idempotent insertion): Insert of a value the tree holds returns the
\* receiver and leaves every node, value and link as it was; a second
\* Insert of a value changes nothing the first left, and Contains answers
\* the same for every value.
C4_InsertIdempotent ==
    /\ \A v \in AllVals :
          LET r1 == Insert(heap, root, v)
              r2 == Insert(r1.heap, r1.ret, v)
          IN  /\ r2.heap = r1.heap
              /\ r2.ret = r1.ret
              /\ \A x \in AllVals :
                    Contains(r2.heap, r2.ret, x).ret
                        = Contains(r1.heap, r1.ret, x).ret
              /\ Contains(heap, root, v).ret
                    => (r1.heap = heap /\ r1.ret = root)
    /\ (last.op = "Insert" /\ Contains(preHeap, preRoot, last.val).ret)
          => (heap = preHeap /\ root = preRoot /\ last.ptr = preRoot)

C4_Witness ==
    /\ last.op = "Insert"
    /\ Contains(preHeap, preRoot, last.val).ret
    /\ last.calls >= 2
    /\ Len(heap) >= 3

\* C5 (empty-tree base case): Contains on the nil tree is false for every
\* value; Insert on the nil tree returns one new node that holds the value
\* and has nil left and right.
C5_EmptyBase ==
    /\ root = Nil => \A x \in AllVals : ~Contains(heap, root, x).ret
    /\ (last.op = "Contains" /\ preRoot = Nil) => ~last.found
    /\ (last.op = "Insert" /\ preRoot = Nil) =>
          /\ last.ptr # Nil
          /\ Len(heap) = Len(preHeap) + 1
          /\ heap[last.ptr] = [left |-> Nil, right |-> Nil, val |-> last.val]
          /\ Nodes(heap, last.ptr) = {last.ptr}

C5_Witness ==
    /\ last.op = "Insert"
    /\ preRoot = Nil
    /\ last.val > 0
    /\ root = last.ptr

\* C6 (no failure): no call of Insert or Contains on a reachable tree, for
\* any value, reads a field of the nil pointer or of anything but an
\* allocated node.
C6_NeverFails ==
    /\ Nil \notin last.derefs
    /\ last.derefs \subseteq DOMAIN preHeap
    /\ \A v \in AllVals :
          /\ Insert(heap, root, v).derefs \subseteq DOMAIN heap
          /\ Contains(heap, root, v).derefs \subseteq DOMAIN heap

C6_Witness ==
    /\ last.op = "Contains"
    /\ ~last.found
    /\ Cardinality(last.derefs) >= 2
    /\ last.calls = Cardinality(last.derefs) + 1

\* C7 (bounded side effect of Insert): a call of Insert allocates one node
\* when the value is absent and none when it is present, and leaves the
\* value of every node allocated before the call as it was.
C7_InsertBounded ==
    /\ last.op = "Insert" =>
          /\ Len(heap) = Len(preHeap)
                + (IF last.val \in ValuesOf(preHeap, preRoot) THEN 0 ELSE 1)
          /\ \A n \in DOMAIN preHeap : heap[n].val = preHeap[n].val
    /\ \A v \in AllVals :
          LET r == Insert(heap, root, v)
          IN  /\ Len(r.heap) = Len(heap)
                    + (IF v \in ValuesOf(heap, root) THEN 0 ELSE 1)
              /\ \A n \in DOMAIN heap : r.heap[n].val = heap[n].val

C7_Witness ==
    /\ last.op = "Insert"
    /\ last.val \notin ValuesOf(preHeap, preRoot)
    /\ Len(preHeap) >= 2
    /\ Len(heap) = Len(preHeap) + 1
    /\ last.calls >= 3

\* C8 (Contains has no side effect): after a call of Contains the nodes,
\* their values and their links, and the caller's root, are what they were
\* before it, whatever it returned.
C8_ContainsPure ==
    /\ last.op = "Contains" => (heap = preHeap /\ root = preRoot)
    /\ \A v \in AllVals : Contains(heap, root, v).heap = heap

C8_Witness ==
    /\ last.op = "Contains"
    /\ ~last.found
    /\ Len(heap) >= 3
    /\ last.calls >= 3

\* C9 (root rebinding): Insert on a non-nil tree returns the receiver, so
\* the value is in the caller's tree whether or not the result is kept;
\* Insert on the nil tree returns a new node, and a caller that drops it
\* still holds the nil tree, on which Contains of the value is false.
C9_RootRebinding ==
    last.op = "Insert" =>
        /\ preRoot # Nil =>
              /\ last.ptr = preRoot
              /\ root = preRoot
              /\ Contains(heap, root, last.val).ret
        /\ preRoot = Nil =>
              /\ last.ptr # Nil
              /\ last.ptr \notin DOMAIN preHeap
              /\ ~last.rebound =>
                    /\ root = Nil
                    /\ ~Contains(heap, root, last.val).ret

\* A dropped Insert of a new value into a non-nil tree, by a caller that
\* earlier dropped the result of an Insert into the nil tree.
C9_Witness ==
    /\ last.op = "Insert"
    /\ ~last.rebound
    /\ preRoot # Nil
    /\ last.val \notin ValuesOf(preHeap, preRoot)
    /\ Len(preHeap) > Cardinality(Nodes(preHeap, preRoot))

\* C10 (scenario): after Insert of 5, 3, 10, 2 in that order into the nil
\* tree, Contains is true of 2, 3, 5 and 10 and false of 12 and 4.
C10_Scenario ==
    inserted = <<5, 3, 10, 2>> =>
        /\ \A x \in {2, 3, 5, 10} : Contains(heap, root, x).ret
        /\ \A x \in {12, 4} : ~Contains(heap, root, x).ret
        /\ last.op = "Contains" => (last.found <=> last.val \in {2, 3, 5, 10})

C10_Witness ==
    /\ inserted = <<5, 3, 10, 2>>
    /\ last.op = "Contains"
    /\ last.val = 4
    /\ ~last.found

\* C11 (no rebalancing): strictly ascending input gives a chain as deep as
\* the input is long in which every node has a nil left; for the input
\* 1, 2, 3, 4, 5 the depth is 5, Contains is true of 1..5 and false of
\* every other value, and the order invariant holds.
C11_SortedChain ==
    /\ StrictlyAscending(inserted) =>
          /\ Depth(heap, root) = Len(inserted)
          /\ \A n \in Nodes(heap, root) : heap[n].left = Nil
    /\ inserted = <<1, 2, 3, 4, 5>> =>
          /\ Depth(heap, root) = 5
          /\ Cardinality(Nodes(heap, root)) = 5
          /\ \A n \in Nodes(heap, root) : heap[n].left = Nil
          /\ \A x \in 1..5 : Contains(heap, root, x).ret
          /\ \A x \in AllVals \ (1..5) : ~Contains(heap, root, x).ret
          /\ InOrder(heap, root) = <<1, 2, 3, 4, 5>>
          /\ \A n \in Nodes(heap, root) :
                \A x \in ValuesOf(heap, heap[n].right) : x > heap[n].val

C11_Witness ==
    /\ inserted = <<1, 2, 3, 4, 5>>
    /\ last.op = "Contains"
    /\ last.val = 5
    /\ last.found
    /\ last.calls = 5

\* C12 (termination): a call of Insert or Contains on a reachable tree makes
\* at most depth + 1 calls, the recursive ones included, and the depth is at
\* most the number of values inserted so far.
C12_CallsBounded ==
    /\ Depth(heap, root) <= Len(inserted)
    /\ last.op # "none" =>
          /\ last.calls >= 1
          /\ last.calls <= Depth(preHeap, preRoot) + 1
          /\ last.calls <= Len(inserted) + 1
    /\ \A v \in AllVals :
          /\ Insert(heap, root, v).calls <= Depth(heap, root) + 1
          /\ Contains(heap, root, v).calls <= Depth(heap, root) + 1

C12_Witness ==
    /\ last.op = "Contains"
    /\ Depth(preHeap, preRoot) >= 3
    /\ last.calls = Depth(preHeap, preRoot) + 1
    /\ Cardinality(Nodes(heap, root)) > Depth(heap, root)

\* C13 (nodes are never deleted): no call takes a node or a value out of the
\* caller's tree, so a value Contains finds is found after every later call.
C13_NeverDeleted ==
    [][ /\ Nodes(heap, root) \subseteq Nodes(heap', root')
        /\ ValuesOf(heap, root) \subseteq ValuesOf(heap', root')
        /\ \A v \in AllVals :
              Contains(heap, root, v).ret => Contains(heap', root', v).ret
      ]_vars

C13_Witness ==
    /\ Len(inserted) >= 4
    /\ Cardinality(Nodes(heap, root)) >= 3
    /\ last.op = "Contains"
    /\ last.val = inserted[1]
    /\ last.found
    /\ inserted[1] \notin Range(Tail(inserted))

\* C14 (exclusive ownership): a tree built by Insert calls is a proper tree:
\* one link points to every node but the root and none to the root, no node
\* is below itself, and one path leads from the root to each node.
C14_ProperTree ==
    LET N == Reachable(heap, root)
    IN  /\ N = DOMAIN heap
        /\ root # Nil => ParentLinks(heap, root) = {}
        /\ \A n \in N \ {root} : Cardinality(ParentLinks(heap, n)) = 1
        /\ \A n \in N : n \notin Descendants(heap, n)
        /\ \A n \in N : CountPaths(heap, root, n, Len(heap) + 1) = 1

C14_Witness ==
    /\ Cardinality(Reachable(heap, root)) >= 4
    /\ Depth(heap, root) = 3
    /\ \E n \in Reachable(heap, root) : Cardinality(Children(heap, n)) = 2

\* C19 (where Insert attaches): Insert of an absent value allocates one
\* leaf and stores it in the nil link the search for the value ends at (in
\* the root, for the nil tree); every older node keeps its value and its
\* non-nil links, and no other nil link is filled.
C19_LeafAttach ==
    (last.op = "Insert" /\ last.val \notin ValuesOf(preHeap, preRoot)) =>
        LET new  == Len(preHeap) + 1
            slot == SearchSlot(preHeap, <<Nil, "root">>, preRoot, last.val)
        IN  /\ Len(heap) = new
            /\ heap[new] = [left |-> Nil, right |-> Nil, val |-> last.val]
            /\ \A n \in DOMAIN preHeap :
                  /\ heap[n].val = preHeap[n].val
                  /\ preHeap[n].left # Nil => heap[n].left = preHeap[n].left
                  /\ preHeap[n].right # Nil => heap[n].right = preHeap[n].right
            /\ IF preRoot = Nil
               THEN /\ slot = <<Nil, "root">>
                    /\ last.ptr = new
                    /\ root = new
                    /\ FilledLinks(preHeap, heap) = {}
               ELSE /\ FilledLinks(preHeap, heap) = {slot}
                    /\ root = preRoot
                    /\ (IF slot[2] = "left" THEN heap[slot[1]].left
                        ELSE heap[slot[1]].right) = new

C19_Witness ==
    /\ last.op = "Insert"
    /\ last.val \notin ValuesOf(preHeap, preRoot)
    /\ last.calls >= 3
    /\ Cardinality(Nodes(preHeap, preRoot)) >= 3
    /\ SearchSlot(preHeap, <<Nil, "root">>, preRoot, last.val)[2] = "left"

\* C20 (the demo program): main's root is the node made by &IntTree{} and
\* stays that node; only the first Insert result is rebound; after Insert of
\* 5, 3, 10, 2 it reports Contains true for 2, 3, 5 and 10 and false for 12.
C20_Demo ==
    /\ root = 1
    /\ root # Nil
    /\ last.op = "Insert" => (last.rebound <=> Len(inserted) = 1)
    /\ inserted = <<5, 3, 10, 2>> =>
          /\ \A x \in {2, 3, 5, 10} : Contains(heap, root, x).ret
          /\ ~Contains(heap, root, 12).ret
          /\ last.op = "Contains" =>
                (last.found <=> last.val \in {2, 3, 5, 10})

C20_Witness ==
    /\ inserted = <<5, 3, 10, 2>>
    /\ last.op = "Contains"
    /\ last.val = 12
    /\ ~last.found
    /\ Len(heap) = 5

\* C15 (calculator division): div with a zero divisor returns 0 and the
\* error "division by zero" and divides by nothing; every other call of
\* add, sub, mul or div returns the nil error; no call divides by zero.
C15_DivByZero ==
    /\ 0 \notin calc.divisors
    /\ (calc.pc = "done" /\ calc.op = "/" /\ calc.j = 0) =>
          /\ calc.err = "division by zero"
          /\ calc.val = 0
          /\ calc.divisors = {}
    /\ (calc.pc = "done" /\ ~(calc.op = "/" /\ calc.j = 0)) =>
          calc.err = NoErr

C15_Witness ==
    /\ calc.pc = "done"
    /\ calc.op = "/"
    /\ calc.j = 0
    /\ calc.i # 0
    /\ calc.err = "division by zero"

\* C17 (the Orderable contract): Order returns a value < 0 when the
\* receiver is less than the argument, a value > 0 when it is greater, and
\* 0 when the two are equal, for all int values.
C17_OrderContract ==
    ord.called =>
        /\ ord.oi < ord.val => ord.ret < 0
        /\ ord.oi > ord.val => ord.ret > 0
        /\ ord.oi = ord.val => ord.ret = 0

\* C16 (overflow wraps): the literals 255, 2147483647 and
\* 18446744073709551615 are the greatest values of byte, int32 and uint64;
\* adding 1 to each gives the least value of its type, printed 0,
\* -2147483648 and 0, and no error.
C16_OverflowWraps ==
    /\ ovf.pc = "run" => ovf.err = NoErr
    /\ \A t \in IntTypes : Const(t, Literal(t)) = MaxOf(t)
    /\ (ovf.pc = "run" /\ ovf.start = MaxOf(ovf.type) /\ ovf.steps = 1) =>
          /\ ovf.val = MinOf(ovf.type)
          /\ ovf.type = "byte" =>
                Format("byte", ovf.val) = [neg |-> FALSE, digits |-> <<0>>]
          /\ ovf.type = "int32" =>
                Format("int32", ovf.val)
                    = [neg |-> TRUE, digits |-> <<2, 1, 4, 7, 4, 8, 3, 6, 4, 8>>]
          /\ ovf.type = "uint64" =>
                Format("uint64", ovf.val) = [neg |-> FALSE, digits |-> <<0>>]

C16_Witness ==
    /\ ovf.pc = "run"
    /\ ovf.type = "int32"
    /\ ovf.start = <<255, 255, 255, 127>>
    /\ ovf.steps = 1
    /\ ovf.val = <<0, 0, 0, 128>>
    /\ Format("int32", ovf.start).digits = Literal("int32")

\* C18 (fileLen): when a Read reports end-of-file, fileLen returns the sum
\* of the counts of every Read made, that one included, and a nil error;
\* when os.Open fails, or a Read reports another error, it returns 0 and
\* that error.
C18_FileLen ==
    fl.pc = "done" =>
        IF fl.openErr # NoErr
        THEN /\ fl.reads = <<>>
             /\ fl.n = 0
             /\ fl.err = fl.openErr
        ELSE LET k == Len(fl.reads)
             IN  /\ k >= 1
                 /\ \A m \in 1..(k - 1) : fl.reads[m].err = NoErr
                 /\ fl.reads[k].err # NoErr
                 /\ IF fl.reads[k].err = EOF
                    THEN fl.n = SumCounts(fl.reads) /\ fl.err = NoErr
                    ELSE fl.n = 0 /\ fl.err = fl.reads[k].err

C18_Witness ==
    /\ fl.pc = "done"
    /\ Len(fl.reads) >= 3
    /\ fl.reads[Len(fl.reads)] = [count |-> 1, err |-> EOF]
    /\ fl.n = 2 * BufSize + 1
    /\ fl.err = NoErr
    /\ fl.closed

\* C21 (the root of main): a tree whose root is made by &IntTree{} holds
\* the value 0 from the start: Contains(0) is true before and after every
\* insertion, whether or not 0 was ever passed to Insert, and Insert(0)
\* allocates no node and changes no node.
C21_ZeroRoot ==
    /\ Contains(heap, root, 0).ret
    /\ 0 \in ValuesOf(heap, root)
    /\ Cardinality(Nodes(heap, root)) = Cardinality(Range(inserted) \cup {0})
    /\ Insert(heap, root, 0).heap = heap
    /\ (last.op = "Contains" /\ last.val = 0) => last.found
    /\ (last.op = "Insert" /\ last.val = 0) =>
          /\ heap = preHeap
          /\ Contains(preHeap, preRoot, 0).ret

\* Insert(0) after three insertions of other values: 0 was never inserted
\* before this call, and the tree has four nodes.
C21_Witness ==
    /\ last.op = "Insert"
    /\ last.val = 0
    /\ Len(inserted) = 4
    /\ 0 \notin Range(SubSeq(inserted, 1, 3))
    /\ Cardinality(Nodes(heap, root)) = 4
    /\ Len(heap) = 4

\* C22 (size): in the tree of a caller that rebinds every Insert result,
\* starting from the nil tree, there are as many nodes as there are
\* distinct values inserted, and no two nodes store the same value.
C22_NodeCount ==
    /\ Cardinality(Nodes(heap, root)) = Cardinality(Range(inserted))
    /\ \A n1, n2 \in Nodes(heap, root) :
          n1 # n2 => heap[n1].val # heap[n2].val
    /\ Len(InOrder(heap, root)) = Cardinality(Range(inserted))

\* Four insertions of two distinct values: two nodes.
C22_Witness ==
    /\ Len(inserted) = 4
    /\ Cardinality(Range(inserted)) = 2
    /\ Cardinality(Nodes(heap, root)) = 2
    /\ last.op = "Insert"
    /\ last.val \in ValuesOf(preHeap, preRoot)

\* C23 (insertion order): two sequences of Insert calls over the same set
\* of values, each from the nil tree, give trees on which Contains answers
\* alike for every value and whose in-order traversals are equal.
C23_OrderIndependent ==
    Range(inserted) = Range(alt.inserted) =>
        /\ \A x \in AllVals :
              Contains(heap, root, x).ret = Contains(alt.heap, alt.root, x).ret
        /\ InOrder(heap, root) = InOrder(alt.heap, alt.root)

\* The same three values in two orders that give trees of different roots
\* and different depths.
C23_Witness ==
    /\ Range(inserted) = Range(alt.inserted)
    /\ Cardinality(Range(inserted)) = 3
    /\ inserted # alt.inserted
    /\ heap[root].val # alt.heap[alt.root].val
    /\ Depth(heap, root) # Depth(alt.heap, alt.root)

\* C24 (the root is fixed): in the tree of a caller that rebinds every
\* Insert result, once a value has been inserted the root holds the first
\* value ever inserted, and every Insert on a non-nil tree returns the root
\* it was called on, so the caller's root never moves.
C24_RootFixed ==
    /\ inserted # <<>> =>
          /\ root # Nil
          /\ heap[root].val = inserted[1]
    /\ (last.op = "Insert" /\ preRoot # Nil) =>
          /\ last.ptr = preRoot
          /\ root = preRoot
          /\ heap[root].val = preHeap[preRoot].val
    /\ (last.op = "Contains") => root = preRoot

\* The fourth Insert, of a new value that lands two links below the root,
\* returns the root made by the first.
C24_Witness ==
    /\ last.op = "Insert"
    /\ Len(inserted) = 4
    /\ last.val \notin ValuesOf(preHeap, preRoot)
    /\ last.calls >= 3
    /\ last.ptr = root
    /\ heap[root].val = inserted[1]
    /\ inserted[4] # inserted[1]

\* The most recent Push among the first k calls of log whose value no later
\* Pop among them returned: going back from call k, every Pop that returned
\* true cancels the nearest uncancelled Push before it.
RECURSIVE Unpopped(_, _, _)
Unpopped(log, k, skip) ==
    IF k = 0
    THEN [found |-> FALSE, val |-> 0]
    ELSE IF log[k].op = "Pop"
    THEN Unpopped(log, k - 1, IF log[k].ok THEN skip + 1 ELSE skip)
    ELSE IF skip = 0
    THEN [found |-> TRUE, val |-> log[k].val]
    ELSE Unpopped(log, k - 1, skip - 1)

\* C26 (last in, first out): a Pop on a non-empty stack returns the value
\* of the most recent Push not yet popped, together with true, and leaves
\* the stack one shorter, the values below untouched; a Pop on an empty
\* stack returns the zero value together with false and leaves the stack
\* empty.  The stack is non-empty exactly when some Push is not yet popped.
C26_LIFO ==
    stack.pc = "run" =>
        LET n == Len(stack.log)
        IN  /\ (stack.vals # <<>>) <=> Unpopped(stack.log, n, 0).found
            /\ (n > 0 /\ stack.log[n].op = "Pop") =>
                  LET u == Unpopped(stack.log, n - 1, 0)
                      c == stack.log[n]
                  IN  IF u.found
                      THEN /\ c.ok
                           /\ c.val = u.val
                           /\ Len(stack.vals) = Len(stack.pre) - 1
                           /\ stack.vals = SubSeq(stack.pre, 1, Len(stack.pre) - 1)
                      ELSE /\ ~c.ok
                           /\ c.val = 0
                           /\ stack.pre = <<>>
                           /\ stack.vals = <<>>

\* Pop on the empty stack, two pushes of different values, then two pops:
\* the last returns the value pushed first.
C26_Witness ==
    /\ stack.pc = "run"
    /\ Len(stack.log) = 5
    /\ stack.log[1].op = "Pop" /\ ~stack.log[1].ok
    /\ stack.log[2].op = "Push"
    /\ stack.log[3].op = "Push"
    /\ stack.log[2].val # stack.log[3].val
    /\ stack.log[4].op = "Pop" /\ stack.log[4].val = stack.log[3].val
    /\ stack.log[5].op = "Pop" /\ stack.log[5].ok
    /\ stack.log[5].val = stack.log[2].val
    /\ stack.vals = <<>>

\* The number a string of decimal digits denotes: each digit times the
\* power of ten of its place.
RECURSIVE PlaceSum(_, _)
PlaceSum(body, k) ==
    IF k > Len(body)
    THEN 0
    ELSE (CHOOSE d \in 0..9 : DigitChars[d + 1] = body[k])
            * 10 ^ (Len(body) - k)
         + PlaceSum(body, k + 1)

\* The string is a numeral of an int: an optional sign, then one or more
\* digits that denote a number within the ints.
IsInt(s) ==
    LET body == IF s # <<>> /\ s[1] \in {"+", "-"} THEN Tail(s) ELSE s
    IN  /\ body # <<>>
        /\ \A k \in DOMAIN body :
              body[k] \in {"0", "1", "2", "3", "4", "5", "6", "7", "8", "9"}
        /\ IF s[1] = "-"
           THEN -PlaceSum(body, 1) >= MinInt
           ELSE PlaceSum(body, 1) <= MaxInt

\* C25 (main of the calculator): every expression gets exactly one printed
\* line; an operator function is called, once, only for an expression of
\* exactly three tokens whose first is an int, whose second is one of
\* + - * / and whose third is an int; the four tests are made in that
\* order, nothing is printed or called before one of them fails, and the
\* first that fails gives the one line of the expression.
C25_MainLoop ==
    loop.pc # "idle" =>
        LET e     == loop.expression
            three == Len(e) = 3
            first == three /\ IsInt(e[1])
            oper  == first /\ e[2] \in {<<"+">>, <<"-">>, <<"*">>, <<"/">>}
            third == oper /\ IsInt(e[3])
        IN  /\ loop.printed = loop.done + Len(loop.lines)
            /\ loop.calls <= 1
            /\ loop.calls > 0 => third
            /\ loop.pc = "atoi1" => three
            /\ loop.pc = "op" => first
            /\ loop.pc = "atoi2" => oper
            /\ loop.pc = "call" => third
            /\ loop.pc \in {"range", "len", "atoi1", "op", "atoi2", "call"} =>
                  /\ loop.lines = <<>>
                  /\ loop.calls = 0
            /\ loop.pc = "continue" =>
                  /\ Len(loop.lines) = 1
                  /\ LET l == loop.lines[1]
                     IN  IF ~three
                         THEN /\ l.kind = "invalid"
                              /\ l.tokens = e
                              /\ loop.calls = 0
                         ELSE IF ~first
                         THEN /\ l.kind = "error"
                              /\ l.err \in {"invalid syntax", "value out of range"}
                              /\ l.tokens = <<e[1]>>
                              /\ loop.calls = 0
                         ELSE IF ~oper
                         THEN /\ l.kind = "unsupported"
                              /\ l.tokens = <<e[2]>>
                              /\ loop.calls = 0
                         ELSE IF ~third
                         THEN /\ l.kind = "error"
                              /\ l.err \in {"invalid syntax", "value out of range"}
                              /\ l.tokens = <<e[3]>>
                              /\ loop.calls = 0
                         ELSE /\ loop.calls = 1
                              /\ l.kind \in {"result", "error"}
                              /\ l.kind = "error" => l.err = "division by zero"

\* The second expression has a signed int, an operator and a word: the
\* third test is the first to fail, and its error is the line printed.
C25_Witness ==
    /\ loop.pc = "continue"
    /\ loop.done = 1
    /\ loop.printed = 2
    /\ Len(loop.expression) = 3
    /\ loop.expression[1] = <<"-", "3">>
    /\ loop.p1 = -3
    /\ loop.expression[2] = <<"/">>
    /\ loop.expression[3] = <<"t", "w", "o">>
    /\ loop.lines[1].kind = "error"
    /\ loop.lines[1].tokens = <<loop.expression[3]>>
    /\ loop.calls = 0

====
